---------------------------- MODULE Spec2Model ----------------------------
(***************************************************************************)
(* WhisperDictationApp (src/src/main.py): the recording / transcription    *)
(* controller and the threads that drive it.                               *)
(*                                                                         *)
(* Threads of the program:                                                 *)
(*   "hk"    the pynput listener thread, which runs on_press / on_release  *)
(*           one callback at a time;                                       *)
(*   "menu"  the main (rumps) thread running a menu callback;              *)
(*   "sig"   handle_shutdown, which Python runs on the main thread, on top *)
(*           of whatever the main thread was doing;                        *)
(*   the load_model thread, one capture worker (record_audio) per          *)
(*   start_recording, one transcription worker (process_recording) per     *)
(*   stop_recording.                                                       *)
(* The program takes no lock.  A step of a thread is one access to the     *)
(* shared state (self.recording, self.frames, self.recording_thread,       *)
(* self.model, the title and status pair) together with the thread's own   *)
(* local work around it; the threads interleave between the steps.         *)
(***************************************************************************)
EXTENDS Naturals, Sequences, FiniteSets

\* Bounds of the model.
MaxSessions == 2    \* recordings opened (self.recording set to True) in one run
MaxStops    == 2    \* calls of stop_recording in one run
MaxFaults   == 1    \* device, file and engine errors raised in one run
MaxFrames   == 1    \* device reads made by one capture worker

Threads == {"hk", "menu", "sig"}

\* The kinds of key object pynput hands to the callbacks:
\*   "vk63"    a KeyCode with vk = 63 = self.trigger_key (the Globe/Fn key)
\*   "altvk"   a KeyCode with vk = 49 or vk = 55
\*   "special" a Key member of [f12, f13, f17, f18, cmd, space] (no vk attribute)
\*   "other"   anything else
Keys == {"vk63", "altvk", "special", "other"}

VARIABLES
  model,             \* self.model: "None" or "Loaded"
  lpc,               \* position of the load_model thread
  recording,         \* self.recording
  armed,             \* self.is_recording_with_key63
  frames,            \* self.frames: sequence of chunks <<session, k, r>>: the k-th
                     \* read of the session's worker, the r-th read of the device
  recording_thread,  \* self.recording_thread: index into cap, 0 = attribute not set
  title,             \* self.title
  status,            \* self.status_item.title
  pc,                \* position of each calling thread
  joinee,            \* the thread object each caller is blocked on in join()
  tsess,             \* session opened / stopped by the call each thread is in
  nsess,             \* number of sessions opened so far (recording set to True)
  cap,               \* capture workers (record_audio threads)
  tr,                \* transcription workers (process_recording threads)
  audio,             \* self.audio: "up" or "terminated"
  exited,            \* rumps.quit_application() has ended the process
  nfault,            \* errors raised so far by the device, the file system, the engine
  nread              \* chunks the device has delivered so far

vars == <<model, lpc, recording, armed, frames, recording_thread, title, status,
          pc, joinee, tsess, nsess, cap, tr, audio, exited, nfault, nread>>

ctl  == <<recording, armed, frames, recording_thread>>
ui   == <<title, status>>
wrk  == <<cap, tr>>
env  == <<audio, exited, nfault, nread>>
ldr  == <<model, lpc>>

-----------------------------------------------------------------------------
\* __init__ (lines 16-57); monitor_keys line 80 sets the armed flag.
Init ==
  /\ model = "None"
  /\ lpc = "l60"
  /\ recording = FALSE
  /\ armed = FALSE
  /\ frames = <<>>
  /\ recording_thread = 0
  /\ title = "idle"
  /\ status = "Ready"
  /\ pc = [t \in Threads |-> "idle"]
  /\ joinee = [t \in Threads |-> 0]
  /\ tsess = [t \in Threads |-> 0]
  /\ nsess = 0
  /\ cap = <<>>
  /\ tr = <<>>
  /\ audio = "up"
  /\ exited = FALSE
  /\ nfault = 0
  /\ nread = 0

-----------------------------------------------------------------------------
\* load_model (lines 59-70)

\* lines 60-61
LoadStart ==
  /\ ~exited /\ lpc = "l60"
  /\ title' = "Loading"
  /\ status' = "LoadingModel"
  /\ lpc' = "l63"
  /\ UNCHANGED <<model, ctl, pc, joinee, tsess, nsess, wrk, env>>

\* line 63: the constructor returns and self.model is assigned
LoadOk ==
  /\ ~exited /\ lpc = "l63"
  /\ model' = "Loaded"
  /\ lpc' = "l64"
  /\ UNCHANGED <<ui, ctl, pc, joinee, tsess, nsess, wrk, env>>

\* line 63 raises: lines 67-70
LoadFail ==
  /\ ~exited /\ lpc = "l63"
  /\ title' = "Error"
  /\ status' = "ErrorLoadingModel"
  /\ lpc' = "done"
  /\ UNCHANGED <<model, ctl, pc, joinee, tsess, nsess, wrk, env>>

\* lines 64-65
LoadReady ==
  /\ ~exited /\ lpc = "l64"
  /\ title' = "idle"
  /\ status' = "Ready"
  /\ lpc' = "done"
  /\ UNCHANGED <<model, ctl, pc, joinee, tsess, nsess, wrk, env>>

load_model ==
  \/ LoadStart \/ LoadOk \/ LoadFail \/ LoadReady

-----------------------------------------------------------------------------
\* A calling thread can take a step: the process is alive, and the main
\* thread's menu callback is suspended while the signal handler runs on top of it.
Runs(t) ==
  /\ ~exited
  /\ (t = "menu" => pc["sig"] = "idle")

\* Where a thread continues when start_recording / stop_recording returns:
\* handle_shutdown goes on to line 296, the callbacks end.
Ret(t) == IF t = "sig" THEN "h296" ELSE "idle"

Goto(t, l) == pc' = [pc EXCEPT ![t] = l]

\* The run opens at most MaxSessions recordings: an event that would call
\* start_recording is delivered only while that leaves room.
Starting == {t \in Threads : pc[t] \in {"s164", "s169", "s170"}}

CanStart == nsess + Cardinality(Starting) < MaxSessions

\* The run makes at most MaxStops calls of stop_recording: an event that would
\* call it is delivered only while that leaves room.
Stopping ==
  {t \in Threads : \/ pc[t] \in {"t182", "t183", "t184", "t187", "t192"}
                   \/ pc[t] = "r118" /\ armed}

CanStop == Len(tr) + Cardinality(Stopping) < MaxStops

\* on_press (lines 82-104): a KeyCode with vk 49/55 starts at lines 91-96,
\* a listed Key member at lines 100-102; no other key does anything
on_press(key) ==
  /\ Runs("hk") /\ pc["hk"] = "idle"
  /\ IF key \in {"altvk", "special"} /\ ~recording
       THEN CanStart /\ Goto("hk", "s164")
       ELSE UNCHANGED pc
  /\ UNCHANGED <<ldr, ctl, ui, joinee, tsess, nsess, wrk, env>>

\* on_release (lines 106-136), up to its first read of self.recording
on_release(key) ==
  /\ Runs("hk") /\ pc["hk"] = "idle"
  /\ IF key = "vk63"
       THEN IF ~recording /\ ~armed                       \* line 113
              THEN CanStart /\ armed' = TRUE /\ Goto("hk", "s164")    \* lines 116-117
              ELSE (armed => CanStop) /\ armed' = armed /\ Goto("hk", "r118")
       ELSE /\ armed' = armed
            /\ IF key \in {"altvk", "special"} /\ recording   \* lines 125-128, 132-134
                 THEN CanStop /\ Goto("hk", "t182")
                 ELSE UNCHANGED pc
  /\ UNCHANGED <<ldr, recording, frames, recording_thread, ui, joinee, tsess,
                 nsess, wrk, env>>

\* on_release, line 118: the elif branch reads self.recording again
on_release_118 ==
  /\ Runs("hk") /\ pc["hk"] = "r118"
  /\ IF recording /\ armed
       THEN armed' = FALSE /\ Goto("hk", "t182")          \* lines 121-122
       ELSE armed' = armed /\ Goto("hk", "idle")
  /\ UNCHANGED <<ldr, recording, frames, recording_thread, ui, joinee, tsess,
                 nsess, wrk, env>>

\* start_recording_menu (lines 153-156)
start_recording_menu ==
  /\ Runs("menu") /\ pc["menu"] = "idle"
  /\ IF ~recording THEN CanStart /\ Goto("menu", "s164") ELSE UNCHANGED pc
  /\ UNCHANGED <<ldr, ctl, ui, joinee, tsess, nsess, wrk, env>>

\* stop_recording_menu (lines 158-161)
stop_recording_menu ==
  /\ Runs("menu") /\ pc["menu"] = "idle"
  /\ IF recording THEN CanStop /\ Goto("menu", "t182") ELSE UNCHANGED pc
  /\ UNCHANGED <<ldr, ctl, ui, joinee, tsess, nsess, wrk, env>>

\* handle_shutdown (lines 287-300), delivered once
handle_shutdown ==
  /\ Runs("sig") /\ pc["sig"] = "idle"
  /\ IF recording                                          \* lines 292-293
       THEN CanStop /\ Goto("sig", "t182")
       ELSE Goto("sig", "h296")
  /\ UNCHANGED <<ldr, ctl, ui, joinee, tsess, nsess, wrk, env>>

\* lines 296-300: self.audio.terminate(), then rumps.quit_application()
shutdown_quit ==
  /\ Runs("sig") /\ pc["sig"] = "h296"
  /\ audio' = "terminated"
  /\ exited' = TRUE
  /\ Goto("sig", "exit")
  /\ UNCHANGED <<ldr, ctl, ui, joinee, tsess, nsess, wrk, nfault, nread>>

-----------------------------------------------------------------------------
\* start_recording (lines 163-179), run by thread t

\* start_recording as it would be without lines 164-167: no model gate
start_gate_absent(t) ==
  /\ Runs(t) /\ pc[t] = "s164"
  /\ Goto(t, "s169")
  /\ UNCHANGED <<ldr, ctl, ui, joinee, tsess, nsess, wrk, env>>

\* lines 164-167: the model gate
start_gate(t) ==
  /\ Runs(t) /\ pc[t] = "s164"
  /\ IF model = "None"
       THEN status' = "WaitingForModel" /\ Goto(t, Ret(t))
       ELSE status' = status /\ Goto(t, "s169")
  /\ UNCHANGED <<ldr, ctl, title, joinee, tsess, nsess, wrk, env>>

\* line 169: self.frames = []
start_clear(t) ==
  /\ Runs(t) /\ pc[t] = "s169"
  /\ frames' = <<>>
  /\ Goto(t, "s170")
  /\ UNCHANGED <<ldr, recording, armed, recording_thread, ui, joinee, tsess,
                 nsess, wrk, env>>

\* line 170: self.recording = True; a new session is open
start_flag(t) ==
  /\ Runs(t) /\ pc[t] = "s170"
  /\ recording' = TRUE
  /\ nsess' = nsess + 1
  /\ tsess' = [tsess EXCEPT ![t] = nsess + 1]
  /\ Goto(t, "s173")
  /\ UNCHANGED <<ldr, armed, frames, recording_thread, ui, joinee, wrk, env>>

\* lines 173-174: title and status
start_ui(t) ==
  /\ Runs(t) /\ pc[t] = "s173"
  /\ title' = "Recording"
  /\ status' = "Recording"
  /\ Goto(t, "s178")
  /\ UNCHANGED <<ldr, ctl, joinee, tsess, nsess, wrk, env>>

\* A capture worker as threading.Thread(target=self.record_audio) creates it
NewCapture(sess) ==
  [pc |-> "open", sess |-> sess, n |-> 0, data |-> 0, stream |-> FALSE]

\* lines 178-179: the capture worker is created and started
start_thread(t) ==
  /\ Runs(t) /\ pc[t] = "s178"
  /\ cap' = Append(cap, NewCapture(tsess[t]))
  /\ recording_thread' = Len(cap) + 1
  /\ tsess' = [tsess EXCEPT ![t] = 0]
  /\ Goto(t, Ret(t))
  /\ UNCHANGED <<ldr, recording, armed, frames, ui, joinee, nsess, tr, env>>

start_recording(t) ==
  \/ start_gate(t) \/ start_clear(t) \/ start_flag(t) \/ start_ui(t) \/ start_thread(t)

-----------------------------------------------------------------------------
\* stop_recording (lines 181-193), run by thread t

\* line 182: self.recording = False; the session being stopped is the last one opened
stop_flag(t) ==
  /\ Runs(t) /\ pc[t] = "t182"
  /\ recording' = FALSE
  /\ tsess' = [tsess EXCEPT ![t] = nsess]
  /\ Goto(t, "t183")
  /\ UNCHANGED <<ldr, armed, frames, recording_thread, ui, joinee, nsess, wrk, env>>

\* lines 183-184: self.recording_thread is read and join() is entered
stop_join_enter(t) ==
  /\ Runs(t) /\ pc[t] = "t183"
  /\ IF recording_thread = 0
       THEN joinee' = joinee /\ Goto(t, "t187")
       ELSE joinee' = [joinee EXCEPT ![t] = recording_thread] /\ Goto(t, "t184")
  /\ UNCHANGED <<ldr, ctl, ui, tsess, nsess, wrk, env>>

\* The joined thread has ended
Ended(w) == cap[w].pc \in {"done", "dead"}

\* line 184: join() returns once the joined thread has ended
stop_join_return(t) ==
  /\ Runs(t) /\ pc[t] = "t184"
  /\ Ended(joinee[t])
  /\ joinee' = [joinee EXCEPT ![t] = 0]
  /\ Goto(t, "t187")
  /\ UNCHANGED <<ldr, ctl, ui, tsess, nsess, wrk, env>>

\* lines 187-188: title and status
stop_ui(t) ==
  /\ Runs(t) /\ pc[t] = "t187"
  /\ title' = "Transcribing"
  /\ status' = "Transcribing"
  /\ Goto(t, "t192")
  /\ UNCHANGED <<ldr, ctl, joinee, tsess, nsess, wrk, env>>

\* A transcription worker as threading.Thread(target=self.process_recording) creates it
NewTranscriber(sess) ==
  [pc |-> "l222", sess |-> sess, audio |-> <<>>, file |-> FALSE,
   text |-> <<>>, out |-> "none"]

\* lines 192-193: the transcription worker is created and started
stop_dispatch(t) ==
  /\ Runs(t) /\ pc[t] = "t192"
  /\ tr' = Append(tr, NewTranscriber(tsess[t]))
  /\ tsess' = [tsess EXCEPT ![t] = 0]
  /\ Goto(t, Ret(t))
  /\ UNCHANGED <<ldr, ctl, ui, joinee, nsess, cap, env>>

stop_recording(t) ==
  \/ stop_flag(t) \/ stop_join_enter(t) \/ stop_join_return(t)
  \/ stop_ui(t) \/ stop_dispatch(t)

-----------------------------------------------------------------------------
\* record_audio (lines 205-219), capture worker w.  A step is one access to
\* the shared state together with the worker's own device calls around it.

Workers == 1..Len(cap)

SetCap(w, r) == cap' = [cap EXCEPT ![w] = r]

\* An error is raised by the device, the file system or the engine
Fault == nfault < MaxFaults /\ nfault' = nfault + 1

NoFault == nfault' = nfault

\* lines 214-215 and 218-219 for a worker whose stream is open: the loop test
\* reads self.recording; when it is set, stream.read returns a chunk or raises;
\* when it is clear, the stream is stopped and closed and the thread ends
LoopTest(w) ==
  IF recording
    THEN \/ /\ cap[w].n < MaxFrames
            /\ SetCap(w, [cap[w] EXCEPT !.pc = "append", !.n = @ + 1,
                                        !.data = nread + 1, !.stream = TRUE])
            /\ nread' = nread + 1
            /\ NoFault
         \/ /\ SetCap(w, [cap[w] EXCEPT !.pc = "dead", !.stream = TRUE])
            /\ nread' = nread
            /\ Fault
    ELSE /\ SetCap(w, [cap[w] EXCEPT !.pc = "done", !.stream = FALSE])
         /\ nread' = nread
         /\ NoFault

\* lines 206-212: self.audio.open(...) raises and the thread dies, or returns
\* a stream and the loop is entered
capture_open(w) ==
  /\ ~exited /\ cap[w].pc = "open"
  /\ \/ SetCap(w, [cap[w] EXCEPT !.pc = "dead"]) /\ Fault /\ nread' = nread
     \/ LoopTest(w)
  /\ UNCHANGED <<ldr, ctl, ui, pc, joinee, tsess, nsess, tr, audio, exited>>

\* lines 214-215, 218-219: a later turn of the loop
capture_loop(w) ==
  /\ ~exited /\ cap[w].pc = "loop"
  /\ LoopTest(w)
  /\ UNCHANGED <<ldr, ctl, ui, pc, joinee, tsess, nsess, tr, audio, exited>>

\* line 216: self.frames.append(data)
capture_append(w) ==
  /\ ~exited /\ cap[w].pc = "append"
  /\ frames' = Append(frames, <<cap[w].sess, cap[w].n, cap[w].data>>)
  /\ SetCap(w, [cap[w] EXCEPT !.pc = "loop", !.data = 0])
  /\ UNCHANGED <<ldr, recording, armed, recording_thread, ui, pc, joinee, tsess,
                 nsess, tr, env>>

record_audio(w) ==
  \/ capture_open(w) \/ capture_loop(w) \/ capture_append(w)

-----------------------------------------------------------------------------
\* process_recording / transcribe_audio / insert_text (lines 195-275),
\* transcription worker i

Transcribers == 1..Len(tr)

SetTr(i, r) == tr' = [tr EXCEPT ![i] = r]

\* lines 222-230: the empty test on self.frames; when it passes, the
\* temporary file is created
transcribe_check(i) ==
  /\ ~exited /\ tr[i].pc = "l222"
  /\ IF frames = <<>>
       THEN /\ title' = "idle"
            /\ status' = "NoAudioRecorded"
            /\ SetTr(i, [tr[i] EXCEPT !.pc = "l203", !.out = "noaudio"])
       ELSE /\ UNCHANGED ui
            /\ SetTr(i, [tr[i] EXCEPT !.pc = "l232", !.file = TRUE])
  /\ UNCHANGED <<ldr, ctl, pc, joinee, tsess, nsess, cap, env>>

\* What self.model.transcribe may return: the texts of the segments, each a
\* string (here a sequence of characters)
Segments == { <<>>, << <<>> >>, << <<1>> >> }

\* lines 244-246: text = "" and text += segment.text for each segment
RECURSIVE Concat(_)
Concat(segs) == IF segs = <<>> THEN <<>> ELSE Head(segs) \o Concat(Tail(segs))

\* lines 232-246: self.frames is read again and written to the file, and
\* self.model.transcribe is called on it: it returns segments, whose texts
\* are concatenated (l248), or raises (l258).  The write itself may raise: it
\* stands outside the try of line 241, so the exception goes straight to
\* process_recording.
transcribe_engine(i) ==
  /\ ~exited /\ tr[i].pc = "l232"
  /\ \/ /\ \E segs \in Segments :
             SetTr(i, [tr[i] EXCEPT !.pc = "l248", !.audio = frames,
                                    !.text = Concat(segs)])
        /\ NoFault
     \/ /\ SetTr(i, [tr[i] EXCEPT !.pc = "l258", !.audio = frames])
        /\ Fault
     \/ /\ SetTr(i, [tr[i] EXCEPT !.pc = "l201"])
        /\ Fault
  /\ UNCHANGED <<ldr, ctl, ui, pc, joinee, tsess, nsess, cap, audio, exited, nread>>

\* line 248: if text
HasText(i) == tr[i].text # <<>>

\* lines 249-252 as they would run without the test of line 248
transcribe_insert_untested(i) ==
  /\ ~exited /\ tr[i].pc = "l248"
  /\ status' = "Transcribed"
  /\ SetTr(i, [tr[i] EXCEPT !.pc = "l203", !.out = "injected", !.file = FALSE,
                            !.text = <<>>])
  /\ UNCHANGED <<ldr, ctl, title, pc, joinee, tsess, nsess, cap, env>>

\* lines 248-252, 260-262: insert_text(text) (recorded in out), the status,
\* the file is removed
transcribe_insert(i) ==
  /\ ~exited /\ tr[i].pc = "l248" /\ HasText(i)
  /\ status' = "Transcribed"
  /\ SetTr(i, [tr[i] EXCEPT !.pc = "l203", !.out = "injected", !.file = FALSE,
                            !.text = <<>>])
  /\ UNCHANGED <<ldr, ctl, title, pc, joinee, tsess, nsess, cap, env>>

\* lines 253-255, 260-262
transcribe_nospeech(i) ==
  /\ ~exited /\ tr[i].pc = "l248" /\ ~HasText(i)
  /\ status' = "NoSpeechDetected"
  /\ SetTr(i, [tr[i] EXCEPT !.pc = "l203", !.out = "nospeech", !.file = FALSE])
  /\ UNCHANGED <<ldr, ctl, title, pc, joinee, tsess, nsess, cap, env>>

\* lines 256-262: the status, the file is removed, the exception is raised again
transcribe_except(i) ==
  /\ ~exited /\ tr[i].pc = "l258"
  /\ status' = "TranscriptionError"
  /\ SetTr(i, [tr[i] EXCEPT !.pc = "l201", !.file = FALSE])
  /\ UNCHANGED <<ldr, ctl, title, pc, joinee, tsess, nsess, cap, env>>

\* process_recording as it would be with an except clause that reports nothing
process_except_silent(i) ==
  /\ ~exited /\ tr[i].pc = "l201"
  /\ SetTr(i, [tr[i] EXCEPT !.pc = "l203", !.out = "error"])
  /\ UNCHANGED <<ldr, ctl, ui, pc, joinee, tsess, nsess, cap, env>>

\* process_recording, lines 199-201
process_except(i) ==
  /\ ~exited /\ tr[i].pc = "l201"
  /\ status' = "ErrorDuringTranscription"
  /\ SetTr(i, [tr[i] EXCEPT !.pc = "l203", !.out = "error"])
  /\ UNCHANGED <<ldr, ctl, title, pc, joinee, tsess, nsess, cap, env>>

\* process_recording, lines 202-203
process_finally(i) ==
  /\ ~exited /\ tr[i].pc = "l203"
  /\ title' = "idle"
  /\ SetTr(i, [tr[i] EXCEPT !.pc = "done", !.audio = <<>>])
  /\ UNCHANGED <<ldr, ctl, status, pc, joinee, tsess, nsess, cap, env>>

process_recording(i) ==
  \/ transcribe_check(i) \/ transcribe_engine(i) \/ transcribe_insert(i)
  \/ transcribe_nospeech(i) \/ transcribe_except(i)
  \/ process_except(i) \/ process_finally(i)

-----------------------------------------------------------------------------
Next ==
  \/ load_model
  \/ \E key \in Keys : on_press(key)
  \/ \E key \in Keys : on_release(key)
  \/ on_release_118
  \/ start_recording_menu
  \/ stop_recording_menu
  \/ handle_shutdown
  \/ shutdown_quit
  \/ \E t \in Threads : start_recording(t)
  \/ \E t \in Threads : stop_recording(t)
  \/ \E w \in Workers : record_audio(w)
  \/ \E i \in Transcribers : process_recording(i)

Spec == Init /\ [][Next]_vars

\* The program driven by the keyboard alone: no menu click and no signal is
\* delivered, so start_recording and stop_recording are only ever called by
\* the listener thread, one callback after the other.
NextKeys ==
  \/ load_model
  \/ \E key \in Keys : on_press(key)
  \/ \E key \in Keys : on_release(key)
  \/ on_release_118
  \/ start_recording("hk")
  \/ stop_recording("hk")
  \/ \E w \in Workers : record_audio(w)
  \/ \E i \in Transcribers : process_recording(i)

SpecKeys == Init /\ [][NextKeys]_vars

\* A transcription worker is a thread of its own (lines 192-193): the
\* interpreter schedules it as long as it can take a step.
SpecKeysFair ==
  /\ SpecKeys
  /\ \A i \in 1..MaxStops :
       WF_vars(i \in Transcribers /\ process_recording(i))

-----------------------------------------------------------------------------
\* The controller states of the specification, read off the program's state.

\* A capture worker is running: its thread has not ended
CaptureRunning(w) == cap[w].pc \notin {"done", "dead"}

\* A transcription is in flight: its worker has been dispatched and has not ended
InFlight(i) == tr[i].pc # "done"

Transcribing == \E i \in Transcribers : InFlight(i)

\* The engine has just been called by worker i on the audio it wrote
EngineCalled(i) == tr[i].pc \in {"l248", "l258"}

\* Nothing is going on: no callback is running, no worker is alive, the flag is clear
Idle ==
  /\ ~recording
  /\ \A t \in Threads : pc[t] = "idle"
  /\ \A w \in Workers : ~CaptureRunning(w)
  /\ ~Transcribing

-----------------------------------------------------------------------------
\* C1: in every reachable state at most one capture worker is running, at most
\* one transcription worker is in flight, and no capture worker is running
\* while a transcription worker is in flight.
C1_AtMostOneSessionLive ==
  /\ Cardinality({w \in Workers : CaptureRunning(w)}) <= 1
  /\ Cardinality({i \in Transcribers : InFlight(i)}) <= 1
  /\ ~((\E w \in Workers : CaptureRunning(w)) /\ Transcribing)

\* C2: a trigger event (key press or release, menu click) that arrives while
\* a transcription is in flight is ignored: the callback calls neither
\* start_recording nor stop_recording and leaves the armed flag as it was.
C2_TriggerIgnoredWhileTranscribing ==
  [][ \A t \in {"hk", "menu"} :
        (Transcribing /\ pc[t] = "idle")
          => (pc'[t] \notin {"s164", "t182"} /\ armed' = armed) ]_vars

\* C3: in every state where the controller is idle and the model is loaded, a
\* release of the primary key (vk 63) calls start_recording; in every state
\* where a recording is in progress and no callback is running, a release of
\* the primary key goes on to stop it.
C3_PrimaryReleaseToggles ==
  [][ /\ (Idle /\ model = "Loaded" /\ on_release("vk63"))
           => pc'["hk"] = "s164"
      /\ (recording /\ (\A t \in Threads : pc[t] = "idle") /\ on_release("vk63"))
           => (pc'["hk"] = "r118" /\ armed) ]_vars

\* C4: whichever thread stopped the recording, the armed flag is false when
\* stop_recording has dispatched the transcription and returns.
C4_ArmedClearedByEveryStop ==
  [][ \A t \in Threads : stop_dispatch(t) => ~armed' ]_vars

\* C5: a start request rejected at the model gate changes nothing but the
\* status: the status becomes "Waiting for model to load", the callback ends,
\* flag, buffer and workers are untouched, and as long as every start so far
\* was rejected the armed flag still has the value it started with.
C5_RejectedStartChangesNothing ==
  /\ [][ \A t \in Threads :
           (start_gate(t) /\ model = "None")
             => /\ status' = "WaitingForModel"
                /\ pc'[t] = "idle"
                /\ UNCHANGED <<recording, frames, recording_thread, cap>> ]_vars
  /\ []((nsess = 0 /\ pc["hk"] = "idle") => ~armed)

\* C6: when the capture worker cannot open the device, the controller is not
\* left in Recording: the recording flag is false and the status names the
\* device error.
C6_DeviceUnavailableLeavesIdle ==
  [][ \A w \in Workers :
        (capture_open(w) /\ cap'[w].pc = "dead" /\ ~cap'[w].stream)
          => (~recording' /\ status' = "DeviceError") ]_vars

\* C7: the engine is never called on an empty audio buffer, whatever the
\* interleaving of start and stop events with the transcription worker.
C7_EngineNeverCalledOnEmptyAudio ==
  \A i \in Transcribers : EngineCalled(i) => tr[i].audio # <<>>

\* A stop_recording call for session s or a later one has passed its join
\* and dispatched its transcription
StopDispatched(s) == \E i \in Transcribers : tr[i].sess >= s

\* C8: once a stop_recording call has passed its join and dispatched the
\* transcription, no capture worker of the session it stopped (or of an
\* earlier one) appends a frame.
C8_NoAppendAfterStopReturned ==
  [][ \A w \in Workers : capture_append(w) => ~StopDispatched(cap[w].sess) ]_vars

\* C9: at most one transcription worker is dispatched for a recording session,
\* also when stop requests of several threads race on it.
C9_OneTranscriptionPerSession ==
  \A i, j \in Transcribers : tr[i].sess = tr[j].sess => i = j

\* C10: the audio a transcription worker gives to the engine holds frames of
\* its own session only.
C10_AudioIsOwnSession ==
  \A i \in Transcribers :
    EngineCalled(i) =>
      \A k \in 1..Len(tr[i].audio) : tr[i].audio[k][1] = tr[i].sess

\* C11: handling a signal never dispatches a transcription worker, also when
\* the signal arrives while a recording is in progress.
C11_NoTranscriptionDuringShutdown ==
  [][ ~stop_dispatch("sig") ]_vars

C13_TempFileDeleted ==
  \A i \in Transcribers : tr[i].pc = "done" => ~tr[i].file

\* C14: start_recording never clears the buffer or sets the flag while a
\* recording is already in progress, whichever threads the start requests
\* come from.
C14_StartWhileRecordingIsNoOp ==
  [][ \A t \in Threads : (start_clear(t) \/ start_flag(t)) => ~recording ]_vars

\* The chunks of a buffer stand in the order in which the device delivered
\* them, none of them twice
InReadOrder(buf) ==
  \A j, k \in 1..Len(buf) : j < k => buf[j][3] < buf[k][3]

\* C15: the frame buffer always holds the chunks in the order in which they
\* were read from the device, and so does the audio written for the engine.
C15_FramesInReadOrder ==
  /\ InReadOrder(frames)
  /\ \A i \in Transcribers : InReadOrder(tr[i].audio)

\* C16: a capture worker that has ended, on whichever path, has left no
\* input stream open.
C16_StreamClosedOnEveryExit ==
  \A w \in Workers : ~CaptureRunning(w) => ~cap[w].stream

\* C17: the engine is called only when the model has been loaded; as long as
\* it has not been (and for good when loading failed, which is never retried)
\* every start request is rejected, the recording flag is false, and no
\* capture or transcription worker exists.
C17_ModelUsedOnlyWhenLoaded ==
  /\ [](\A i \in Transcribers : EngineCalled(i) => model = "Loaded")
  /\ [](model = "None" => (~recording /\ frames = <<>> /\ cap = <<>> /\ tr = <<>>))
  /\ [][ /\ (lpc = "done" /\ model = "None") => (lpc' = "done" /\ model' = "None")
         /\ \A t \in Threads :
              (start_gate(t) /\ model = "None") => pc'[t] = Ret(t) ]_vars

\* Loading has failed and a start request has been rejected since
C17_Witness ==
  /\ lpc = "done" /\ model = "None"
  /\ status = "WaitingForModel"

\* C18: insert_text is called only with a text that is not empty; when the
\* text is empty the worker writes No speech detected and calls no insert_text.
C18_NoEmptyTextInjected ==
  [][ \A i \in Transcribers :
        /\ (tr[i].out # "injected" /\ tr'[i].out = "injected") => tr[i].text # <<>>
        /\ (tr[i].pc = "l248" /\ tr[i].text = <<>> /\ tr'[i].pc # "l248")
             => (tr'[i].out = "nospeech" /\ status' = "NoSpeechDetected") ]_vars

\* The engine found no text in a recording, and the worker has said so
C18_Witness ==
  \E i \in Transcribers :
    tr[i].out = "nospeech" /\ status = "NoSpeechDetected"

\* Thread t waits in the join of stop_recording for a capture worker that is
\* still running
BlockedInJoin(t) ==
  /\ pc[t] = "t184"
  /\ joinee[t] \in Workers
  /\ CaptureRunning(joinee[t])

\* C19: stop_recording never waits in its join for a capture worker that keeps
\* running until some further event: when no other callback is running, the
\* worker it waits for is one that the cleared flag lets end.
C19_StopNeverBlockedInJoin ==
  \A t \in Threads :
    (BlockedInJoin(t) /\ \A u \in Threads \ {t} : pc[u] = "idle") => ~recording

\* C20: while a recording is in progress, title and status, once they show
\* Recording, keep showing it: no other thread overwrites them.
C20_RecordingStaysDisplayed ==
  [][ (recording /\ recording' /\ title = "Recording" /\ status = "Recording")
        => (title' = "Recording" /\ status' = "Recording") ]_vars

=============================================================================
